---- MODULE Spec2Model ----
(***************************************************************************)
(* Task management API: the Task store, the TaskSerializer validation      *)
(* layer, the TaskService operations and the TaskViewSet request handlers. *)
(* One action per handler / service operation; every request is handled    *)
(* to completion (Django handles a request synchronously).                 *)
(***************************************************************************)
EXTENDS Integers, Sequences, FiniteSets, TLC

VARIABLES
    tasks,      \* the Task table: primary key -> row
    nextId,     \* the AutoField sequence of the Task table
    clock,      \* the value the next timezone.now() returns
    deleted,    \* history: primary keys of rows that have been deleted
    op,         \* the handler (or service operation) that ran last
    response,   \* its response (or return value)
    txn,        \* the open transaction of a bulk_update_tasks call, if any
    inflight    \* the partial updates that have loaded their record and
                \* have not saved it yet, by client

vars == <<tasks, nextId, clock, deleted, op, response, txn, inflight>>

-----------------------------------------------------------------------------
(* Bounds of the exploration *)

\* rows ever created in one behaviour
MaxTasks == 2
\* timezone.now() readings (saves) in one behaviour
MaxClock == 2

-----------------------------------------------------------------------------
(* Text: a string is the sequence of its runs, <<c, n>> standing for n      *)
(* copies of the character c (n > 0, neighbouring runs of different c)     *)

Whitespace == {" "}

\* len(s)
RECURSIVE Length(_)
Length(s) == IF s = <<>> THEN 0 ELSE Head(s)[2] + Length(Tail(s))

RECURSIVE lstrip(_)
lstrip(s) ==
    IF s # <<>> /\ Head(s)[1] \in Whitespace THEN lstrip(Tail(s)) ELSE s

RECURSIVE rstrip(_)
rstrip(s) ==
    IF s # <<>> /\ s[Len(s)][1] \in Whitespace
    THEN rstrip(SubSeq(s, 1, Len(s) - 1))
    ELSE s

\* str.strip()
strip(s) == rstrip(lstrip(s))

\* c * n
Repeat(c, n) == << <<c, n>> >>

-----------------------------------------------------------------------------
(* The Task model (taskapp/models.py): fields, defaults, constraints *)

MaxTitleLength == 200

PRIORITY_CHOICES == {"low", "medium", "high"}
STATUS_CHOICES == {"pending", "in_progress", "completed"}

\* the NULL of a nullable column
Null == "null"

DefaultTitle == <<>>
DefaultDescription == <<>>
DefaultPriority == "medium"
DefaultStatus == "pending"
DefaultDueDate == Null

\* Task.objects.create(**validated_data): defaults for the fields not given,
\* the next primary key, auto_now_add / auto_now timestamps
ModelCreate(validated, pk, now) ==
    [id          |-> pk,
     title       |-> IF "title" \in DOMAIN validated
                     THEN validated.title ELSE DefaultTitle,
     description |-> IF "description" \in DOMAIN validated
                     THEN validated.description ELSE DefaultDescription,
     priority    |-> IF "priority" \in DOMAIN validated
                     THEN validated.priority ELSE DefaultPriority,
     status      |-> IF "status" \in DOMAIN validated
                     THEN validated.status ELSE DefaultStatus,
     created_at  |-> now,
     updated_at  |-> now,
     due_date    |-> IF "due_date" \in DOMAIN validated
                     THEN validated.due_date ELSE DefaultDueDate]

\* Model.save() of a loaded instance: auto_now refreshes updated_at, the row
\* with the instance's primary key is written (inserted when there is none)
ModelSave(table, instance, now) ==
    LET row == [instance EXCEPT !.updated_at = now]
    IN  [k \in DOMAIN table \cup {row.id} |->
            IF k = row.id THEN row ELSE table[k]]

\* (mutant) the delete takes the rows with a larger primary key with it
ModelDelete_cascading(table, pk) ==
    [k \in {j \in DOMAIN table : j < pk} |-> table[k]]

\* Model.delete()
ModelDelete(table, pk) == [k \in DOMAIN table \ {pk} |-> table[k]]

\* QuerySet.update(status=...): one UPDATE statement; Model.save() is not
\* called, so auto_now does not run and nothing is validated
QuerySetUpdateStatus(table, pks, new_status) ==
    [k \in DOMAIN table |->
        IF k \in pks THEN [table[k] EXCEPT !.status = new_status]
        ELSE table[k]]

-----------------------------------------------------------------------------
(* TaskSerializer *)

SerializerFields ==
    {"id", "title", "description", "priority", "status",
     "created_at", "updated_at", "due_date"}

\* (mutant) id is left out of the read-only fields
read_only_fields_without_id == {"created_at", "updated_at"}

read_only_fields == {"id", "created_at", "updated_at"}

WritableFields == SerializerFields \ read_only_fields

\* the fields a non-partial validation requires: the model fields without a
\* default (blank=False, no default)
RequiredFields == {"title"}

Ok(v) == [ok |-> TRUE, value |-> v]
Invalid == [ok |-> FALSE, value |-> <<>>]

\* validate_title
validate_title(value) ==
    IF value = <<>> \/ strip(value) = <<>> THEN Invalid ELSE Ok(strip(value))

\* validate_priority
validate_priority(value) ==
    IF value \notin {"low", "medium", "high"} THEN Invalid ELSE Ok(value)

\* validate_status
validate_status(value) ==
    IF value \notin {"pending", "in_progress", "completed"}
    THEN Invalid ELSE Ok(value)

\* the CharField the ModelSerializer builds for title: blank is refused,
\* surrounding whitespace is trimmed, then the length validator runs
TitleField(data) ==
    IF strip(data) = <<>> THEN Invalid
    ELSE IF Length(strip(data)) > MaxTitleLength THEN Invalid
    ELSE Ok(strip(data))

\* the CharField built for description (blank allowed, whitespace trimmed)
DescriptionField(data) == Ok(strip(data))

\* the ChoiceField built for a field with choices
ChoiceField(data, choices) == IF data \in choices THEN Ok(data) ELSE Invalid

\* the DateTimeField built for due_date (null allowed)
DueDateField(data) == Ok(data)

\* Serializer.to_internal_value for one supplied field: the field's own
\* validation, then the serializer's validate_<field> method
RunField(f, data) ==
    CASE f = "title" ->
            LET r == TitleField(data)
            IN  IF r.ok THEN validate_title(r.value) ELSE r
      [] f = "description" -> DescriptionField(data)
      [] f = "priority" ->
            LET r == ChoiceField(data, PRIORITY_CHOICES)
            IN  IF r.ok THEN validate_priority(r.value) ELSE r
      [] f = "status" ->
            LET r == ChoiceField(data, STATUS_CHOICES)
            IN  IF r.ok THEN validate_status(r.value) ELSE r
      [] f = "due_date" -> DueDateField(data)
      [] OTHER -> Ok(data)

\* serializer.errors: the fields whose validation failed; read-only fields of
\* the input are ignored, fields not supplied are skipped unless required
Errors(data, partial) ==
    {f \in WritableFields :
        IF f \in DOMAIN data THEN ~RunField(f, data[f]).ok
        ELSE (~partial /\ f \in RequiredFields)}

\* serializer.is_valid()
is_valid(data, partial) == Errors(data, partial) = {}

\* (mutant) the supplied values go into validated_data as they were sent
validated_data_as_sent(data) ==
    [f \in WritableFields \cap DOMAIN data |-> data[f]]

\* serializer.validated_data: for each supplied writable field the value its
\* validation returned
validated_data(data) ==
    [f \in WritableFields \cap DOMAIN data |-> RunField(f, data[f]).value]

\* ModelSerializer.update(instance, validated_data): setattr for each
\* validated field (instance.save() follows)
SerializerUpdate(instance, validated) ==
    [f \in DOMAIN instance |->
        IF f \in DOMAIN validated THEN validated[f] ELSE instance[f]]

\* serializer.data: the representation of an instance
to_representation(instance) == [f \in SerializerFields |-> instance[f]]

-----------------------------------------------------------------------------
(* Requests *)

\* primary keys a request may name: existing, deleted or never created
TaskIds == 1..MaxTasks

T_plain == Repeat("b", 1)
T_padded == Repeat(" ", 1) \o Repeat("a", 1) \o Repeat(" ", 1)
T_max == Repeat("x", MaxTitleLength)
T_padded_max == Repeat(" ", 1) \o T_max
T_too_long == Repeat("x", MaxTitleLength + 1)
T_empty == <<>>
T_blank == Repeat(" ", 1)

D1 == "2025-01-01T00:00:00Z"

EmptyBody == [f \in {} |-> <<>>]

\* request bodies that pass validation on create
ValidBodies ==
    { [title |-> T_padded, description |-> Repeat("d", 1), priority |-> "high",
       status |-> "in_progress", due_date |-> D1, id |-> 2, created_at |-> 0],
      [title |-> T_padded_max, priority |-> "medium", status |-> "pending"],
      [title |-> T_padded] }

\* request bodies that fail validation on create; the first two pass a
\* partial validation
InvalidBodies ==
    { [status |-> "completed"],
      EmptyBody,
      [title |-> T_empty, priority |-> "invalid_priority",
       status |-> "invalid_status"],
      [title |-> T_blank],
      [title |-> T_too_long, priority |-> "medium"] }

Bodies == ValidBodies \cup InvalidBodies

\* what a write request carries: a JSON body, or bytes that are not JSON
Payloads ==
    {[malformed |-> FALSE, body |-> b] : b \in Bodies}
        \cup {[malformed |-> TRUE, body |-> EmptyBody]}

\* what the bulk_update requests of the bulk scenario carry: every writable
\* field, one valid field, a blank title, a title that is too long, bytes
\* that are not JSON
BulkPayloads ==
    {p \in Payloads :
        \/ p.malformed
        \/ "due_date" \in DOMAIN p.body
        \/ p.body = [status |-> "completed"]
        \/ p.body = [title |-> T_blank]
        \/ p.body = [title |-> T_too_long, priority |-> "medium"]}

\* a request without query parameters
NoQuery == [f \in {} |-> ""]

\* query strings sent to the detail routes
DetailQueries == {NoQuery, [status |-> "completed"]}

\* query strings sent to the list route: no parameter, one filter, both
\* filters, an empty value, a value outside the enum
ListQueries ==
    {NoQuery, [status |-> "completed"], [priority |-> "high"],
     [status |-> "completed", priority |-> "high"],
     [status |-> ""], [status |-> "unknown"]}

\* status arguments of TaskService.get_tasks_by_status
StatusArgs == {"pending", "completed"}

\* new_status arguments of TaskService.bulk_update_status
NewStatuses == {"completed", "invalid_status"}

Resp(status, data) == [status |-> status, data |-> data]

NotFound == Resp(404, [detail |-> "Not found."])
ParseError == Resp(400, [detail |-> "JSON parse error"])

-----------------------------------------------------------------------------
(* TaskViewSet *)

\* `if status_filter:` / `if priority_filter:` - the parameter is present
\* and its value is not the empty string
filter_given(query, name) == name \in DOMAIN query /\ query[name] # ""

\* queryset.filter(status=status_filter) and queryset.filter(priority=
\* priority_filter), each applied when its parameter is given
queryset_filter(table, pks, query) ==
    {k \in pks :
        /\ filter_given(query, "status") => table[k].status = query.status
        /\ filter_given(query, "priority") => table[k].priority = query.priority}

\* the orders in which a queryset without order_by may yield the rows pks
RECURSIVE Orders(_)
Orders(pks) ==
    IF pks = {} THEN {<<>>}
    ELSE UNION {{<<k>> \o o : o \in Orders(pks \ {k})} : k \in pks}

\* (mutant) order_by('created_at')
order_by_created_at_asc(table, pks) ==
    {o \in Orders(pks) :
        \A i, j \in 1..Len(o) :
            i < j => table[o[i]].created_at <= table[o[j]].created_at}

\* order_by('-created_at'): the orders in which the rows pks may be yielded
\* (rows with equal created_at in any order)
order_by_created_at_desc(table, pks) ==
    {o \in Orders(pks) :
        \A i, j \in 1..Len(o) :
            i < j => table[o[i]].created_at >= table[o[j]].created_at}

\* serializer.data of TaskSerializer(queryset, many=True)
many(table, order) ==
    [i \in 1..Len(order) |-> to_representation(table[order[i]])]

\* get_queryset: the rows matching the status / priority query parameters
\* (an empty parameter does not filter)
get_queryset(table, query) == queryset_filter(table, DOMAIN table, query)

\* GenericAPIView.get_object: the row with this primary key in get_queryset
Found(table, id, query) == id \in get_queryset(table, query)

\* (mutant) the new row is built from request.data, not from validated_data
create_from_request_data(body, malformed) ==
    /\ op' = "create"
    /\ UNCHANGED <<txn, inflight>>
    /\ IF malformed
       THEN /\ response' = ParseError
            /\ UNCHANGED <<tasks, nextId, clock, deleted>>
       ELSE IF is_valid(body, FALSE)
       THEN /\ nextId <= MaxTasks
            /\ clock <= MaxClock
            /\ LET row == ModelCreate(body, nextId, clock)
               IN  /\ tasks' = [k \in DOMAIN tasks \cup {row.id} |->
                                   IF k = row.id THEN row ELSE tasks[k]]
                   /\ response' = Resp(201, to_representation(row))
            /\ nextId' = nextId + 1
            /\ clock' = clock + 1
            /\ UNCHANGED deleted
       ELSE /\ response' = Resp(400, [errors |-> Errors(body, FALSE),
                                      received_data |-> body,
                                      message |-> "Validation failed"])
            /\ UNCHANGED <<tasks, nextId, clock, deleted>>

\* (mutant) the result of is_valid() is not looked at: the row is saved
\* from whatever validated, and 201 is returned
create_unchecked(body, malformed) ==
    /\ op' = "create"
    /\ UNCHANGED <<txn, inflight>>
    /\ IF malformed
       THEN /\ response' = ParseError
            /\ UNCHANGED <<tasks, nextId, clock, deleted>>
       ELSE /\ nextId <= MaxTasks
            /\ clock <= MaxClock
            /\ LET row == ModelCreate(validated_data(body), nextId, clock)
               IN  /\ tasks' = [k \in DOMAIN tasks \cup {row.id} |->
                                   IF k = row.id THEN row ELSE tasks[k]]
                   /\ response' = Resp(201, to_representation(row))
            /\ nextId' = nextId + 1
            /\ clock' = clock + 1
            /\ UNCHANGED deleted

\* POST /api/tasks/
create(body, malformed) ==
    /\ op' = "create"
    /\ UNCHANGED <<txn, inflight>>
    /\ IF malformed
       THEN /\ response' = ParseError
            /\ UNCHANGED <<tasks, nextId, clock, deleted>>
       ELSE IF is_valid(body, FALSE)
       THEN /\ nextId <= MaxTasks
            /\ clock <= MaxClock
            /\ LET row == ModelCreate(validated_data(body), nextId, clock)
               IN  /\ tasks' = [k \in DOMAIN tasks \cup {row.id} |->
                                   IF k = row.id THEN row ELSE tasks[k]]
                   /\ response' = Resp(201, to_representation(row))
            /\ nextId' = nextId + 1
            /\ clock' = clock + 1
            /\ UNCHANGED deleted
       ELSE /\ response' = Resp(400, [errors |-> Errors(body, FALSE),
                                      received_data |-> body,
                                      message |-> "Validation failed"])
            /\ UNCHANGED <<tasks, nextId, clock, deleted>>

\* GET /api/tasks/: get_queryset(), the same filters applied once more
list(query) ==
    /\ op' = "list"
    /\ UNCHANGED <<txn, inflight>>
    /\ \E order \in order_by_created_at_desc(tasks,
                      queryset_filter(tasks, get_queryset(tasks, query), query)) :
          response' = Resp(200, many(tasks, order))
    /\ UNCHANGED <<tasks, nextId, clock, deleted>>

\* GET /api/tasks/{id}/
retrieve(id, query) ==
    /\ op' = "retrieve"
    /\ UNCHANGED <<txn, inflight>>
    /\ response' = IF Found(tasks, id, query)
                   THEN Resp(200, to_representation(tasks[id]))
                   ELSE NotFound
    /\ UNCHANGED <<tasks, nextId, clock, deleted>>

\* (mutant) the fields that validated are saved even when another field of
\* the request failed validation
perform_update_saving_valid_fields(name, id, query, body, malformed, partial) ==
    /\ op' = name
    /\ UNCHANGED <<txn, inflight>>
    /\ IF ~Found(tasks, id, query)
       THEN /\ response' = NotFound
            /\ UNCHANGED <<tasks, nextId, clock, deleted>>
       ELSE IF malformed
       THEN /\ response' = ParseError
            /\ UNCHANGED <<tasks, nextId, clock, deleted>>
       ELSE /\ clock <= MaxClock
            /\ LET valid == [f \in {g \in DOMAIN body \cap WritableFields :
                                      RunField(g, body[g]).ok} |->
                               RunField(f, body[f]).value]
                   instance == SerializerUpdate(tasks[id], valid)
                   table == ModelSave(tasks, instance, clock)
               IN  /\ tasks' = table
                   /\ response' =
                        IF is_valid(body, partial)
                        THEN Resp(200, to_representation(table[instance.id]))
                        ELSE Resp(400, [errors |-> Errors(body, partial)])
            /\ clock' = clock + 1
            /\ UNCHANGED <<nextId, deleted>>

\* (mutant) the request data is parsed and validated before get_object
perform_update_validating_first(name, id, query, body, malformed, partial) ==
    /\ op' = name
    /\ UNCHANGED <<txn, inflight>>
    /\ IF malformed
       THEN /\ response' = ParseError
            /\ UNCHANGED <<tasks, nextId, clock, deleted>>
       ELSE IF ~is_valid(body, partial)
       THEN /\ response' = Resp(400, [errors |-> Errors(body, partial)])
            /\ UNCHANGED <<tasks, nextId, clock, deleted>>
       ELSE IF ~Found(tasks, id, query)
       THEN /\ response' = NotFound
            /\ UNCHANGED <<tasks, nextId, clock, deleted>>
       ELSE /\ clock <= MaxClock
            /\ LET instance == SerializerUpdate(tasks[id], validated_data(body))
                   table == ModelSave(tasks, instance, clock)
               IN  /\ tasks' = table
                   /\ response' = Resp(200, to_representation(table[instance.id]))
            /\ clock' = clock + 1
            /\ UNCHANGED <<nextId, deleted>>

\* the body of update and of partial_update: get_object, then validate the
\* request data against the instance, then save
perform_update(name, id, query, body, malformed, partial) ==
    /\ op' = name
    /\ UNCHANGED <<txn, inflight>>
    /\ IF ~Found(tasks, id, query)
       THEN /\ response' = NotFound
            /\ UNCHANGED <<tasks, nextId, clock, deleted>>
       ELSE IF malformed
       THEN /\ response' = ParseError
            /\ UNCHANGED <<tasks, nextId, clock, deleted>>
       ELSE IF is_valid(body, partial)
       THEN /\ clock <= MaxClock
            /\ LET instance == SerializerUpdate(tasks[id], validated_data(body))
                   table == ModelSave(tasks, instance, clock)
               IN  /\ tasks' = table
                   /\ response' = Resp(200, to_representation(table[instance.id]))
            /\ clock' = clock + 1
            /\ UNCHANGED <<nextId, deleted>>
       ELSE /\ response' = Resp(400, [errors |-> Errors(body, partial)])
            /\ UNCHANGED <<tasks, nextId, clock, deleted>>

\* PUT /api/tasks/{id}/
update(id, query, body, malformed) ==
    perform_update("update", id, query, body, malformed, FALSE)

\* PATCH /api/tasks/{id}/
partial_update(id, query, body, malformed) ==
    perform_update("partial_update", id, query, body, malformed, TRUE)

\* DELETE /api/tasks/{id}/
destroy(id, query) ==
    /\ op' = "destroy"
    /\ UNCHANGED <<txn, inflight>>
    /\ IF Found(tasks, id, query)
       THEN /\ tasks' = ModelDelete(tasks, id)
            /\ deleted' = deleted \cup {id}
            /\ response' = Resp(204, [message |-> "Task deleted successfully"])
       ELSE /\ response' = NotFound
            /\ UNCHANGED <<tasks, deleted>>
    /\ UNCHANGED <<nextId, clock>>

-----------------------------------------------------------------------------
(* TaskService *)

\* (mutant) the status of a high priority row is not looked at
get_high_priority_tasks_of_any_status(table) ==
    {k \in DOMAIN table : table[k].priority = "high"}

\* TaskService.get_high_priority_tasks: the pks it returns
get_high_priority_tasks(table) ==
    {k \in DOMAIN table :
        /\ table[k].priority = "high"
        /\ table[k].status \in {"pending", "in_progress"}}

\* GET /api/tasks/high_priority/ (the query string is not read)
high_priority(query) ==
    /\ op' = "high_priority"
    /\ UNCHANGED <<txn, inflight>>
    /\ \E order \in order_by_created_at_desc(tasks,
                                             get_high_priority_tasks(tasks)) :
          response' = Resp(200, many(tasks, order))
    /\ UNCHANGED <<tasks, nextId, clock, deleted>>

\* TaskService.get_tasks_by_status(status)
get_tasks_by_status(status) ==
    /\ op' = "get_tasks_by_status"
    /\ UNCHANGED <<txn, inflight>>
    /\ \E order \in order_by_created_at_desc(tasks,
                      {k \in DOMAIN tasks : tasks[k].status = status}) :
          response' = Resp(0, many(tasks, order))
    /\ UNCHANGED <<tasks, nextId, clock, deleted>>

\* the exception classes the service operations raise
DjangoValidationError == "django.core.exceptions.ValidationError"
SerializerValidationError == "rest_framework.exceptions.ValidationError"

\* a service call that raises, and one that returns
Raised(exception) == Resp(0, [raised |-> exception])
Returned(value) == Resp(0, [returned |-> value])

\* TaskService.update_task(task_id, data): Task.objects.get, then a partial
\* validation of data against the task, then save
update_task(task_id, data) ==
    /\ op' = "update_task"
    /\ UNCHANGED <<txn, inflight>>
    /\ IF task_id \notin DOMAIN tasks
       THEN /\ response' = Raised(DjangoValidationError)
            /\ UNCHANGED <<tasks, nextId, clock, deleted>>
       ELSE IF ~is_valid(data, TRUE)
       THEN /\ response' = Raised(SerializerValidationError)
            /\ UNCHANGED <<tasks, nextId, clock, deleted>>
       ELSE /\ clock <= MaxClock
            /\ LET instance == SerializerUpdate(tasks[task_id],
                                                validated_data(data))
                   table == ModelSave(tasks, instance, clock)
               IN  /\ tasks' = table
                   /\ response' = Returned(table[task_id])
            /\ clock' = clock + 1
            /\ UNCHANGED <<nextId, deleted>>

\* TaskService.delete_task(task_id)
delete_task(task_id) ==
    /\ op' = "delete_task"
    /\ UNCHANGED <<txn, inflight>>
    /\ IF task_id \in DOMAIN tasks
       THEN /\ tasks' = ModelDelete(tasks, task_id)
            /\ deleted' = deleted \cup {task_id}
            /\ response' = Returned(TRUE)
       ELSE /\ response' = Raised(DjangoValidationError)
            /\ UNCHANGED <<tasks, deleted>>
    /\ UNCHANGED <<nextId, clock>>

\* Count('id', filter=Q(field=value))
Count(table, field, value) ==
    Cardinality({k \in DOMAIN table : table[k][field] = value})

\* (mutant) high_priority counts the open high priority rows only
get_task_statistics_of_open_tasks(table) ==
    [total         |-> Cardinality(DOMAIN table),
     pending       |-> Count(table, "status", "pending"),
     in_progress   |-> Count(table, "status", "in_progress"),
     completed     |-> Count(table, "status", "completed"),
     high_priority |-> Cardinality({k \in DOMAIN table :
                                      /\ table[k].priority = "high"
                                      /\ table[k].status # "completed"})]

\* TaskService.get_task_statistics: Task.objects.aggregate(...)
get_task_statistics(table) ==
    [total         |-> Cardinality(DOMAIN table),
     pending       |-> Count(table, "status", "pending"),
     in_progress   |-> Count(table, "status", "in_progress"),
     completed     |-> Count(table, "status", "completed"),
     high_priority |-> Count(table, "priority", "high")]

\* GET /api/tasks/statistics/
statistics ==
    /\ op' = "statistics"
    /\ UNCHANGED <<txn, inflight>>
    /\ response' = Resp(200, get_task_statistics(tasks))
    /\ UNCHANGED <<tasks, nextId, clock, deleted>>

\* the loop of bulk_update_tasks over the rows in the given order: each row
\* is validated against update_data (partial) and saved; a validation error
\* raises out of the loop
RECURSIVE BulkLoop(_, _, _, _, _)
BulkLoop(order, update_data, table, now, updated) ==
    IF order = <<>>
    THEN [raised |-> FALSE, table |-> table, now |-> now, updated |-> updated]
    ELSE IF ~is_valid(update_data, TRUE)
    THEN [raised |-> TRUE, table |-> table, now |-> now, updated |-> updated]
    ELSE LET instance == SerializerUpdate(table[Head(order)],
                                          validated_data(update_data))
             saved == ModelSave(table, instance, now)
         IN  BulkLoop(Tail(order), update_data, saved, now + 1,
                      Append(updated, saved[instance.id]))

\* (mutant) a row whose validation fails is left out instead of raising
\* (is_valid() without raise_exception)
bulk_update_tasks_skipping_invalid(order, update_data, table, now) ==
    LET r == BulkLoop(order, update_data, table, now, <<>>)
    IN  IF r.raised THEN [r EXCEPT !.table = table, !.raised = FALSE] ELSE r

\* (mutant) update_data is validated once before the loop, whether or not
\* there is a row to update
bulk_update_tasks_validating_first(order, update_data, table, now) ==
    IF ~is_valid(update_data, TRUE)
    THEN [raised |-> TRUE, table |-> table, now |-> now, updated |-> <<>>]
    ELSE BulkLoop(order, update_data, table, now, <<>>)

\* TaskService.bulk_update_tasks under transaction.atomic: an exception rolls
\* the table back to its state at entry
bulk_update_tasks(order, update_data, table, now) ==
    LET r == BulkLoop(order, update_data, table, now, <<>>)
    IN  IF r.raised THEN [r EXCEPT !.table = table] ELSE r

\* POST /api/tasks/bulk_update/
bulk_update(task_ids, body, malformed) ==
    /\ op' = "bulk_update"
    /\ UNCHANGED <<txn, inflight>>
    /\ IF malformed
       THEN /\ response' = ParseError
            /\ UNCHANGED <<tasks, nextId, clock, deleted>>
       ELSE \* every save of the loop reads the clock
            /\ is_valid(body, TRUE) =>
                 clock + Cardinality(task_ids \cap DOMAIN tasks) <= MaxClock + 1
            /\ \E order \in Orders(task_ids \cap DOMAIN tasks) :
                 \E r \in {bulk_update_tasks(order, body, tasks, clock)} :
                    /\ tasks' = r.table
                    /\ clock' = r.now
                    /\ response' =
                         IF r.raised
                         THEN Resp(400, [error |-> "ValidationError"])
                         ELSE Resp(200,
                                [updated_count |-> Len(r.updated),
                                 tasks |-> [i \in 1..Len(r.updated) |->
                                              to_representation(r.updated[i])]])
            /\ UNCHANGED <<nextId, deleted>>

\* (mutant) the id__in filter is missing: the status of every row is set
bulk_update_status_of_all_tasks(task_ids, new_status) ==
    /\ op' = "bulk_update_status"
    /\ UNCHANGED <<txn, inflight>>
    /\ tasks' = QuerySetUpdateStatus(tasks, DOMAIN tasks, new_status)
    /\ response' = Resp(0, [updated_count |-> Cardinality(DOMAIN tasks)])
    /\ UNCHANGED <<nextId, clock, deleted>>

\* TaskService.bulk_update_status(task_ids, new_status)
bulk_update_status(task_ids, new_status) ==
    /\ op' = "bulk_update_status"
    /\ UNCHANGED <<txn, inflight>>
    /\ tasks' = QuerySetUpdateStatus(tasks, task_ids \cap DOMAIN tasks, new_status)
    /\ response' = Resp(0, [updated_count |->
                              Cardinality(task_ids \cap DOMAIN tasks)])
    /\ UNCHANGED <<nextId, clock, deleted>>

-----------------------------------------------------------------------------
(* The system *)

\* no partial update is between its load and its save
NoRequests == [c \in {} |-> <<>>]

\* no transaction is open
NoTransaction == [phase |-> "idle"]

Init ==
    /\ tasks = [k \in {} |-> <<>>]
    /\ nextId = 1
    /\ clock = 1
    /\ deleted = {}
    /\ op = "none"
    /\ response = Resp(0, [detail |-> ""])
    /\ txn = NoTransaction
    /\ inflight = NoRequests

\* each request is handled to completion
Next ==
    \/ \E p \in Payloads : create(p.body, p.malformed)
    \/ \E q \in ListQueries : list(q)
    \/ \E i \in TaskIds, q \in DetailQueries : retrieve(i, q)
    \/ \E i \in TaskIds, q \in DetailQueries, p \in Payloads :
          update(i, q, p.body, p.malformed)
    \/ \E i \in TaskIds, q \in DetailQueries, p \in Payloads :
          partial_update(i, q, p.body, p.malformed)
    \/ \E i \in TaskIds, q \in DetailQueries : destroy(i, q)
    \/ \E ids \in SUBSET TaskIds, p \in Payloads :
          bulk_update(ids, p.body, p.malformed)
    \/ \E ids \in SUBSET TaskIds, s \in NewStatuses :
          bulk_update_status(ids, s)
    \/ \E q \in DetailQueries : high_priority(q)
    \/ \E s \in StatusArgs : get_tasks_by_status(s)
    \/ statistics

Spec == Init /\ [][Next]_vars

\* the rows a test case's setUp stores with Task.objects.create before the
\* requests are made (at two earlier times)
SetUpTasks ==
    LET first == ModelCreate([title |-> Repeat("a", 1), priority |-> "high",
                              status |-> "pending"], 1, -1)
        second == ModelCreate([title |-> T_plain, priority |-> "medium",
                               status |-> "pending"], 2, 0)
    IN  [k \in {1, 2} |-> IF k = 1 THEN first ELSE second]

InitSetUp ==
    /\ tasks = SetUpTasks
    /\ nextId = 3
    /\ clock = 1
    /\ deleted = {}
    /\ op = "none"
    /\ response = Resp(0, [detail |-> ""])
    /\ txn = NoTransaction
    /\ inflight = NoRequests

\* the two bulk operations, and the request that deletes a record
NextBulk ==
    \/ \E i \in TaskIds, q \in DetailQueries : destroy(i, q)
    \/ \E ids \in SUBSET TaskIds, p \in BulkPayloads :
          bulk_update(ids, p.body, p.malformed)
    \/ \E ids \in SUBSET TaskIds, s \in NewStatuses :
          bulk_update_status(ids, s)

\* the bulk operations on a store that setUp has filled
SpecBulk == InitSetUp /\ [][NextBulk]_vars

\* calls of the service layer's update and delete
NextService ==
    \/ \E i \in TaskIds, b \in Bodies : update_task(i, b)
    \/ \E i \in TaskIds : delete_task(i)

\* the service layer called on a store that setUp has filled
SpecService == InitSetUp /\ [][NextService]_vars

-----------------------------------------------------------------------------
(* Concurrent requests: bulk_update_tasks statement by statement, other     *)
(* requests between its statements. tasks is the committed table, which is *)
(* what every other request reads and writes.                              *)

\* (mutant) bulk_update_tasks without the decorator: every save() commits
transaction_autocommit == FALSE

\* @transaction.atomic on bulk_update_tasks
transaction_atomic == TRUE

\* update_data of the concurrent requests: valid, and invalid
BulkBodies == {[status |-> "in_progress"], [title |-> T_blank]}

\* the rows the open transaction has written: they stay locked until it ends
Locked == IF txn.phase = "open" THEN DOMAIN txn.writes ELSE {}

\* bulk_update reads task_ids and update_data, bulk_update_tasks opens the
\* transaction and the loop loads the rows of the queryset
bulk_update_tasks_begin(task_ids, update_data) ==
    /\ txn.phase = "idle"
    /\ \E order \in Orders(task_ids \cap DOMAIN tasks) :
          txn' = [phase       |-> "open",
                  batch       |-> task_ids \cap DOMAIN tasks,
                  todo        |-> order,
                  update_data |-> update_data,
                  loaded      |-> [k \in task_ids \cap DOMAIN tasks |-> tasks[k]],
                  writes      |-> [k \in {} |-> <<>>],
                  updated     |-> <<>>]
    /\ UNCHANGED <<tasks, nextId, clock, deleted, op, response, inflight>>

\* one pass of the loop: the next row is validated and saved
bulk_update_tasks_save ==
    /\ txn.phase = "open"
    /\ txn.todo # <<>>
    /\ is_valid(txn.update_data, TRUE)
    /\ clock <= MaxClock
    /\ LET pk == Head(txn.todo)
           instance == SerializerUpdate(txn.loaded[pk],
                                        validated_data(txn.update_data))
           row == [instance EXCEPT !.updated_at = clock]
       IN  /\ txn' = [txn EXCEPT
                        !.todo = Tail(@),
                        !.writes = [k \in DOMAIN @ \cup {pk} |->
                                       IF k = pk THEN row ELSE @[k]],
                        !.updated = Append(@, row)]
           /\ tasks' = IF transaction_atomic
                       THEN tasks
                       ELSE ModelSave(tasks, instance, clock)
    /\ clock' = clock + 1
    /\ UNCHANGED <<nextId, deleted, op, response, inflight>>

\* one pass of the loop: is_valid(raise_exception=True) raises; the
\* transaction is rolled back and bulk_update answers from its except branch
bulk_update_tasks_raise ==
    /\ txn.phase = "open"
    /\ txn.todo # <<>>
    /\ ~is_valid(txn.update_data, TRUE)
    /\ txn' = NoTransaction
    /\ op' = "bulk_update"
    /\ response' = Resp(400, [error |-> "ValidationError"])
    /\ UNCHANGED <<tasks, nextId, clock, deleted, inflight>>

\* the loop is over: the transaction commits and bulk_update answers
bulk_update_tasks_commit ==
    /\ txn.phase = "open"
    /\ txn.todo = <<>>
    /\ tasks' = IF transaction_atomic
                THEN [k \in DOMAIN tasks \cup DOMAIN txn.writes |->
                        IF k \in DOMAIN txn.writes THEN txn.writes[k]
                        ELSE tasks[k]]
                ELSE tasks
    /\ txn' = NoTransaction
    /\ op' = "bulk_update"
    /\ response' = Resp(200, [updated_count |-> Len(txn.updated),
                              tasks |-> [i \in 1..Len(txn.updated) |->
                                           to_representation(txn.updated[i])]])
    /\ UNCHANGED <<nextId, clock, deleted, inflight>>

\* the store aborts while the transaction is open: the database error leaves
\* bulk_update_tasks as an exception, what the transaction wrote is rolled
\* back and bulk_update answers from its except branch
store_abort ==
    /\ txn.phase = "open"
    /\ txn' = NoTransaction
    /\ op' = "bulk_update"
    /\ response' = Resp(400, [error |-> "DatabaseError"])
    /\ UNCHANGED <<tasks, nextId, clock, deleted, inflight>>

\* the statements of bulk_update_tasks, and between them list requests,
\* partial updates and bulk_update_status calls on rows that are not locked
NextConcurrent ==
    \/ \E ids \in SUBSET TaskIds, body \in BulkBodies :
          bulk_update_tasks_begin(ids, body)
    \/ bulk_update_tasks_save
    \/ bulk_update_tasks_raise
    \/ bulk_update_tasks_commit
    \/ store_abort
    \/ \E q \in {NoQuery} : list(q)
    \/ \E i \in TaskIds \ Locked, body \in BulkBodies :
          partial_update(i, NoQuery, body, FALSE)
    \/ \E ids \in SUBSET (TaskIds \ Locked), s \in StatusArgs :
          bulk_update_status(ids, s)

SpecConcurrent == InitSetUp /\ [][NextConcurrent]_vars

-----------------------------------------------------------------------------
(* Concurrent partial updates: partial_update between its get_object and   *)
(* its save, other partial updates in between. No row is locked: the       *)
(* record is read with a plain SELECT and save() writes every column.      *)

\* the clients whose requests overlap
Clients == {"A", "B"}

\* the bodies they send: valid, on disjoint fields
PatchBodies == {[status |-> "completed"], [title |-> T_plain]}

\* serializer.save() of the loaded instance: ModelSerializer.update sets the
\* validated fields on the instance, Model.save() writes all its columns
SaveOfInstance(request, now) ==
    ModelSave(tasks,
              SerializerUpdate(request.instance, validated_data(request.body)),
              now)

\* instance = self.get_object(): the record is loaded, or the request ends
\* with 404
partial_update_get_object(client, id, body) ==
    /\ client \notin DOMAIN inflight
    /\ IF id \in DOMAIN tasks
       THEN /\ inflight' = [c \in DOMAIN inflight \cup {client} |->
                              IF c = client
                              THEN [id |-> id, body |-> body,
                                    instance |-> tasks[id]]
                              ELSE inflight[c]]
            /\ UNCHANGED <<op, response>>
       ELSE /\ op' = "partial_update"
            /\ response' = NotFound
            /\ UNCHANGED inflight
    /\ UNCHANGED <<tasks, nextId, clock, deleted, txn>>

\* the rest of partial_update: the request data is validated against the
\* loaded instance and the instance is saved
partial_update_save(client) ==
    /\ client \in DOMAIN inflight
    /\ op' = "partial_update"
    /\ inflight' = [c \in DOMAIN inflight \ {client} |-> inflight[c]]
    /\ LET request == inflight[client]
       IN  IF is_valid(request.body, TRUE)
           THEN /\ clock <= MaxClock
                /\ tasks' = SaveOfInstance(request, clock)
                /\ response' = Resp(200, to_representation(tasks'[request.id]))
                /\ clock' = clock + 1
           ELSE /\ response' =
                     Resp(400, [errors |-> Errors(request.body, TRUE)])
                /\ UNCHANGED <<tasks, clock>>
    /\ UNCHANGED <<nextId, deleted, txn>>

\* overlapping partial updates, and list requests between their steps
NextInterleaved ==
    \/ \E c \in Clients, i \in TaskIds, b \in PatchBodies :
          partial_update_get_object(c, i, b)
    \/ \E c \in Clients : partial_update_save(c)
    \/ \E q \in {NoQuery} : list(q)

SpecInterleaved == InitSetUp /\ [][NextInterleaved]_vars

-----------------------------------------------------------------------------
(* What the specification calls valid input *)

\* a title as the data model constrains it: non-empty after trimming, at
\* most 200 characters
SpecValidTitle(t) == strip(t) # <<>> /\ Length(t) <= MaxTitleLength

\* every supplied writable field satisfies the data model
SpecValidFields(body) ==
    /\ "title" \in DOMAIN body => SpecValidTitle(body.title)
    /\ "priority" \in DOMAIN body => body.priority \in PRIORITY_CHOICES
    /\ "status" \in DOMAIN body => body.status \in STATUS_CHOICES

\* a creation (or full update) input with every required field, all valid
SpecValidComplete(body) ==
    /\ {"title", "priority", "status"} \subseteq DOMAIN body
    /\ SpecValidFields(body)

\* the value of field f a write stores when it is sent v: text is stored
\* with its surrounding whitespace stripped
Stored(f, v) == IF f \in {"title", "description"} THEN strip(v) ELSE v

\* primary keys in use now or at any time before
UsedIds == DOMAIN tasks \cup deleted

-----------------------------------------------------------------------------
(* C1 *)

\* C1 (as stated): every valid creation input gets 201, the returned title,
\* priority and status equal the input values, the returned id was used by
\* no record before, and the record count grows by exactly one.
C1_Original ==
    [][op' = "create" =>
       \A p \in Payloads :
         (/\ ~p.malformed
          /\ SpecValidComplete(p.body)
          /\ create(p.body, p.malformed))
         => /\ response'.status = 201
            /\ response'.data.title = p.body.title
            /\ response'.data.priority = p.body.priority
            /\ response'.data.status = p.body.status
            /\ response'.data.id \notin UsedIds
            /\ Cardinality(DOMAIN tasks') = Cardinality(DOMAIN tasks) + 1]_vars

\* C1 (amended): as C1, except that the returned title is the input title
\* with its surrounding whitespace stripped; the returned object is the
\* record stored under the new id.
C1_Created ==
    [][op' = "create" =>
       \A p \in Payloads :
         (/\ ~p.malformed
          /\ SpecValidComplete(p.body)
          /\ create(p.body, p.malformed))
         => /\ response'.status = 201
            /\ response'.data.title = strip(p.body.title)
            /\ response'.data.priority = p.body.priority
            /\ response'.data.status = p.body.status
            /\ response'.data.id \notin UsedIds
            /\ response'.data.id \in DOMAIN tasks'
            /\ to_representation(tasks'[response'.data.id]) = response'.data
            /\ Cardinality(DOMAIN tasks') = Cardinality(DOMAIN tasks) + 1]_vars

\* a second record has just been created from the padded title " a "
C1_Witness ==
    /\ op = "create"
    /\ response.status = 201
    /\ response.data.id = 2
    /\ response.data.title = strip(T_padded)
    /\ response.data.title # T_padded
    /\ Cardinality(DOMAIN tasks) = 2

-----------------------------------------------------------------------------
(* C2 *)

\* an invalid creation input as C2 lists them, the length taken of the
\* title as sent
C2_InvalidAsSent(p) ==
    \/ p.malformed
    \/ "title" \notin DOMAIN p.body
    \/ strip(p.body.title) = <<>>
    \/ Length(p.body.title) > MaxTitleLength
    \/ ("priority" \in DOMAIN p.body /\ p.body.priority \notin PRIORITY_CHOICES)
    \/ ("status" \in DOMAIN p.body /\ p.body.status \notin STATUS_CHOICES)

\* the same, the length taken of the title with its surrounding whitespace
\* stripped
C2_InvalidStripped(p) ==
    \/ p.malformed
    \/ "title" \notin DOMAIN p.body
    \/ strip(p.body.title) = <<>>
    \/ Length(strip(p.body.title)) > MaxTitleLength
    \/ ("priority" \in DOMAIN p.body /\ p.body.priority \notin PRIORITY_CHOICES)
    \/ ("status" \in DOMAIN p.body /\ p.body.status \notin STATUS_CHOICES)

\* C2 (as stated): every invalid creation input (empty, whitespace-only or
\* missing title, title longer than 200 characters, priority or status
\* outside its enum, malformed or empty body) gets 400 and leaves the store
\* with the same records.
C2_Original ==
    [][op' = "create" =>
       \A p \in Payloads :
         (C2_InvalidAsSent(p) /\ create(p.body, p.malformed))
         => (response'.status = 400 /\ tasks' = tasks)]_vars

\* C2 (amended): the same, where a title is too long when it is longer than
\* 200 characters after its surrounding whitespace is stripped.
C2_Rejected ==
    [][op' = "create" =>
       \A p \in Payloads :
         (C2_InvalidStripped(p) /\ create(p.body, p.malformed))
         => (response'.status = 400 /\ tasks' = tasks /\ nextId' = nextId)]_vars

\* a creation was refused with 400 while the store held a record
C2_Witness ==
    /\ op = "create"
    /\ response.status = 400
    /\ DOMAIN tasks # {}

-----------------------------------------------------------------------------
(* C3 *)

\* C3: in every reachable state every stored record has priority in
\* {low, medium, high} and status in {pending, in_progress, completed}.
C3_EnumsHold ==
    \A k \in DOMAIN tasks :
        /\ tasks[k].priority \in {"low", "medium", "high"}
        /\ tasks[k].status \in {"pending", "in_progress", "completed"}

-----------------------------------------------------------------------------
(* C4 *)

TitleWellFormed(t) ==
    /\ t # <<>>
    /\ strip(t) # <<>>
    /\ strip(t) = t
    /\ Length(t) <= MaxTitleLength

\* the title a successful write stores is the one it was sent, stripped
\* (for bulk_update: the rows hold the stripped title, or the step is not
\* this request)
C4_StoredIsStripped ==
    /\ (op' = "create" /\ response'.status = 201) =>
         \A p \in Payloads :
           create(p.body, p.malformed)
           => tasks'[response'.data.id].title = strip(p.body.title)
    /\ (op' = "update" /\ response'.status = 200) =>
         \A q \in DetailQueries, p \in Payloads :
           (/\ "title" \in DOMAIN p.body
            /\ update(response'.data.id, q, p.body, p.malformed))
           => tasks'[response'.data.id].title = strip(p.body.title)
    /\ (op' = "partial_update" /\ response'.status = 200) =>
         \A q \in DetailQueries, p \in Payloads :
           (/\ "title" \in DOMAIN p.body
            /\ partial_update(response'.data.id, q, p.body, p.malformed))
           => tasks'[response'.data.id].title = strip(p.body.title)
    /\ (op' = "bulk_update" /\ response'.status = 200) =>
         \A p \in Payloads :
           "title" \in DOMAIN p.body =>
             \A ids \in SUBSET TaskIds :
               \/ \A k \in ids \cap DOMAIN tasks :
                     tasks'[k].title = strip(p.body.title)
               \/ ~(/\ response'.data.updated_count =
                         Cardinality(ids \cap DOMAIN tasks)
                    /\ bulk_update(ids, p.body, p.malformed))

\* C4: in every reachable state the title of every record is non-empty, not
\* whitespace-only, without leading or trailing whitespace and at most 200
\* characters long; the title stored by create, full update, partial update
\* and bulk update is the input title with surrounding whitespace stripped.
C4_TitlesWellFormed ==
    /\ [](\A k \in DOMAIN tasks : TitleWellFormed(tasks[k].title))
    /\ [][C4_StoredIsStripped]_vars

\* one record holds the title "a" stored from the padded input " a ", another
\* the 200-character title stored from a padded 201-character input
C4_Witness ==
    /\ \E k \in DOMAIN tasks :
         tasks[k].title = strip(T_padded) /\ tasks[k].title # T_padded
    /\ \E k \in DOMAIN tasks :
         /\ tasks[k].title = strip(T_padded_max)
         /\ Length(tasks[k].title) = MaxTitleLength
         /\ Length(T_padded_max) > MaxTitleLength

-----------------------------------------------------------------------------
(* C5 *)

\* C5: every full update of an existing id with valid data gets 200, the
\* returned id is the addressed one, every supplied field is stored and
\* returned (text compared with its surrounding whitespace stripped),
\* updated_at is strictly greater than before and no record is added.
C5_FullUpdate ==
    [][op' = "update" =>
       \A i \in TaskIds, q \in DetailQueries, p \in Payloads :
         (/\ i \in DOMAIN tasks
          /\ ~p.malformed
          /\ SpecValidComplete(p.body)
          /\ update(i, q, p.body, p.malformed))
         => /\ response'.status = 200
            /\ response'.data.id = i
            /\ \A f \in DOMAIN p.body \cap WritableFields :
                 /\ tasks'[i][f] = Stored(f, p.body[f])
                 /\ response'.data[f] = Stored(f, p.body[f])
            /\ tasks'[i].updated_at > tasks[i].updated_at
            /\ DOMAIN tasks' = DOMAIN tasks]_vars

-----------------------------------------------------------------------------
(* C6 *)

\* C6: every step that changes a stored record leaves its updated_at
\* strictly greater and its created_at as it was, and in every state
\* updated_at >= created_at for every record.
C6_Timestamps ==
    /\ [](\A k \in DOMAIN tasks : tasks[k].updated_at >= tasks[k].created_at)
    /\ [][\A k \in DOMAIN tasks \cap DOMAIN tasks' :
            tasks'[k] # tasks[k]
            => /\ tasks'[k].updated_at > tasks[k].updated_at
               /\ tasks'[k].created_at = tasks[k].created_at]_vars

-----------------------------------------------------------------------------
(* C7 *)

\* C7: a record keeps its id through every operation, also when the request
\* body supplies another id; an id enters the store only through create,
\* and then it is one that no present or deleted record has had; an id
\* leaves the store only through destroy.
C7_IdsStable ==
    /\ [](\A k \in DOMAIN tasks : tasks[k].id = k)
    /\ [][/\ \A k \in DOMAIN tasks' \ DOMAIN tasks :
               op' = "create" /\ k \notin UsedIds
          /\ \A k \in DOMAIN tasks \ DOMAIN tasks' :
               op' = "destroy" /\ k \in deleted'
          /\ deleted \subseteq deleted'
          /\ \A k \in deleted' : k \notin DOMAIN tasks']_vars

\* record 1 has just been fully updated from a body that carried id 2, and
\* is still record 1; there is no record 2
C7_Witness ==
    /\ op = "update"
    /\ response.status = 200
    /\ response.data.id = 1
    /\ response.data.priority = "high"
    /\ DOMAIN tasks = {1}
    /\ tasks[1].id = 1
    /\ tasks[1].updated_at > tasks[1].created_at

-----------------------------------------------------------------------------
(* C8 *)

\* C8: every partial update of an existing id with valid fields gets 200,
\* every supplied field is stored (text with its surrounding whitespace
\* stripped) and every field that was not supplied, other than updated_at,
\* keeps its value.
C8_PartialUpdate ==
    [][op' = "partial_update" =>
       \A i \in TaskIds, q \in DetailQueries, p \in Payloads :
         (/\ i \in DOMAIN tasks
          /\ ~p.malformed
          /\ SpecValidFields(p.body)
          /\ partial_update(i, q, p.body, p.malformed))
         => /\ response'.status = 200
            /\ i \in DOMAIN tasks'
            /\ \A f \in DOMAIN p.body \cap WritableFields :
                 tasks'[i][f] = Stored(f, p.body[f])
            /\ \A f \in SerializerFields \ {"updated_at"} :
                 f \notin DOMAIN p.body \cap WritableFields
                 => tasks'[i][f] = tasks[i][f]]_vars

-----------------------------------------------------------------------------
(* C9 *)

\* C9: every delete of an existing id gets 204 and removes the record;
\* afterwards retrieve, full update, partial update and delete of that id
\* get 404, and the id is in no list, high_priority or bulk update result.
C9_Delete ==
    [][/\ op' = "destroy" =>
            \A i \in TaskIds, q \in DetailQueries :
              (i \in DOMAIN tasks /\ destroy(i, q))
              => (response'.status = 204 /\ i \notin DOMAIN tasks')
       /\ \A i \in deleted :
            /\ i \notin DOMAIN tasks'
            /\ i \notin get_high_priority_tasks(tasks')
            /\ \A q \in DetailQueries :
                 /\ i \notin get_queryset(tasks', q)
                 /\ (retrieve(i, q) \/ destroy(i, q)) => response'.status = 404
                 /\ \A p \in Payloads :
                      (\/ update(i, q, p.body, p.malformed)
                       \/ partial_update(i, q, p.body, p.malformed))
                      => response'.status = 404
            /\ (op' = "bulk_update" /\ response'.status = 200) =>
                 \A n \in 1..Len(response'.data.tasks) :
                    response'.data.tasks[n].id # i]_vars

-----------------------------------------------------------------------------
(* C10 *)

\* C10: a retrieve, full update, partial update or delete that is answered
\* with 404 or 400 leaves the store as it was: the same records with the same
\* field values and timestamps, and the same next id.
C10_FailuresChangeNothing ==
    [][(/\ op' \in {"retrieve", "update", "partial_update", "destroy"}
        /\ response'.status \in {400, 404})
       => (tasks' = tasks /\ nextId' = nextId /\ deleted' = deleted)]_vars

\* a full update has just been refused with 400 for its title alone, while
\* the store held a record
C10_Witness ==
    /\ op = "update"
    /\ response.status = 400
    /\ response.data.errors = {"title"}
    /\ DOMAIN tasks # {}

-----------------------------------------------------------------------------
(* C11 *)

\* the ids of the records of a returned sequence
ReturnedIds(data) == {data[n].id : n \in 1..Len(data)}

\* a returned sequence holds the current records pks, each once
ReturnsExactly(data, pks) ==
    /\ ReturnedIds(data) = pks
    /\ Len(data) = Cardinality(pks)
    /\ \A n \in 1..Len(data) : data[n] = to_representation(tasks[data[n].id])

\* the records whose fields equal every parameter the query supplies
Matching(q) == {k \in DOMAIN tasks : \A f \in DOMAIN q : tasks[k][f] = q[f]}

\* C11: every list request gets 200 with exactly the records that match
\* every filter its query supplies (status, priority, both: logical AND; no
\* filter: all records).
C11_ListFilters ==
    [][op' = "list" =>
       \A q \in ListQueries :
         list(q) => /\ response'.status = 200
                    /\ ReturnedIds(response'.data) = Matching(q)
                    /\ Len(response'.data) = Cardinality(Matching(q))]_vars

-----------------------------------------------------------------------------
(* C12 *)

\* C12: every list request that supplies a status or priority value outside
\* the enum (any other string, the empty string included) gets 200 with zero
\* records.
C12_UnknownFilterValues ==
    [][op' = "list" =>
       \A q \in ListQueries :
         (/\ \/ ("status" \in DOMAIN q /\ q.status \notin STATUS_CHOICES)
             \/ ("priority" \in DOMAIN q /\ q.priority \notin PRIORITY_CHOICES)
          /\ list(q))
         => (response'.status = 200 /\ response'.data = <<>>)]_vars

-----------------------------------------------------------------------------
(* C13 *)

\* C13: in every sequence returned by list, get_tasks_by_status and
\* high_priority, of any two records the one created later comes first.
C13_NewestFirst ==
    op \in {"list", "get_tasks_by_status", "high_priority"} =>
      \A i, j \in 1..Len(response.data) :
         response.data[i].created_at > response.data[j].created_at => i < j

\* list has just returned two records created at different times
C13_Witness ==
    /\ op = "list"
    /\ Len(response.data) = 2
    /\ response.data[1].created_at > response.data[2].created_at
    /\ response.data[1].id = 2

-----------------------------------------------------------------------------
(* C14 *)

-----------------------------------------------------------------------------
(* C15 *)

\* the stored records with the given status
WithStatus(s) == {k \in DOMAIN tasks : tasks[k].status = s}

-----------------------------------------------------------------------------
(* C16 *)

\* C16: for every list of ids and valid field values, bulk_update_status and
\* bulk_update set the new values (text with its surrounding whitespace
\* stripped) on exactly the existing records whose id is in the list, report
\* their number as updated_count, skip the ids that are not in the store, and
\* leave every record whose id is not in the list as it was.
C16_Bulk ==
    [][/\ op' = "bulk_update_status" =>
            \A ids \in SUBSET TaskIds, s \in NewStatuses :
              (s \in STATUS_CHOICES /\ bulk_update_status(ids, s))
              => /\ response'.data.updated_count =
                      Cardinality(ids \cap DOMAIN tasks)
                 /\ DOMAIN tasks' = DOMAIN tasks
                 /\ \A k \in DOMAIN tasks :
                      IF k \in ids THEN tasks'[k].status = s
                                   ELSE tasks'[k] = tasks[k]
       /\ op' = "bulk_update" =>
            \A p \in BulkPayloads :
              (~p.malformed /\ SpecValidFields(p.body)) =>
                \A ids \in SUBSET TaskIds :
                  bulk_update(ids, p.body, p.malformed)
                  => /\ response'.status = 200
                     /\ response'.data.updated_count =
                          Cardinality(ids \cap DOMAIN tasks)
                     /\ ReturnedIds(response'.data.tasks) = ids \cap DOMAIN tasks
                     /\ DOMAIN tasks' = DOMAIN tasks
                     /\ \A k \in DOMAIN tasks :
                          IF k \in ids
                          THEN \A f \in DOMAIN p.body \cap WritableFields :
                                  tasks'[k][f] = Stored(f, p.body[f])
                          ELSE tasks'[k] = tasks[k]]_vars

\* bulk_update has just updated both stored records to in_progress with the
\* title "a", sent as " a ", and reported two
C16_Witness ==
    /\ op = "bulk_update"
    /\ response.status = 200
    /\ response.data.updated_count = 2
    /\ ReturnedIds(response.data.tasks) = {1, 2}
    /\ \A k \in {1, 2} :
         /\ k \in DOMAIN tasks
         /\ tasks[k].status = "in_progress"
         /\ tasks[k].title = strip(T_padded)
         /\ tasks[k].updated_at > tasks[k].created_at

-----------------------------------------------------------------------------
(* C17 *)

\* some supplied field is invalid (a title being too long when it is longer
\* than 200 characters after stripping)
SpecInvalidFields(body) ==
    \/ ("title" \in DOMAIN body /\ ~SpecValidTitle(strip(body.title)))
    \/ ("priority" \in DOMAIN body /\ body.priority \notin PRIORITY_CHOICES)
    \/ ("status" \in DOMAIN body /\ body.status \notin STATUS_CHOICES)

\* C17: a bulk_update whose fields are invalid for a record of the batch is
\* answered 400, and after a bulk_update answered 400 no record differs from
\* its state before the request.
C17_BulkAllOrNothing ==
    [][op' = "bulk_update" =>
         /\ response'.status = 400 => tasks' = tasks
         /\ \A p \in BulkPayloads :
              (~p.malformed /\ SpecInvalidFields(p.body)) =>
                \A ids \in SUBSET TaskIds :
                  (ids \cap DOMAIN tasks # {}
                     /\ bulk_update(ids, p.body, p.malformed))
                  => (response'.status = 400 /\ tasks' = tasks)]_vars

\* bulk_update has just been refused for its fields while both records of the
\* batch are stored as setUp left them
C17_Witness ==
    /\ op = "bulk_update"
    /\ response.status = 400
    /\ response.data = [error |-> "ValidationError"]
    /\ tasks = SetUpTasks

-----------------------------------------------------------------------------
(* C18 *)

\* the rows of its batch that a table shows as the transaction t wrote them
\* (a write carries the updated_at of its save, which no other write has)
Visible(t, table) ==
    {k \in DOMAIN t.writes \cap DOMAIN table : table[k] = t.writes[k]}

\* C18: a bulk update is one atomic unit. While its transaction is open, the
\* committed table - what every other request reads - shows none of its
\* writes, and neither does a list response; when it ends with success the
\* table shows the writes of all records of the batch at once; when it ends
\* with a failure (a validation error, or the store aborting at any point of
\* the batch) the table is as it was and shows none of them.
C18_Atomic ==
    /\ [](txn.phase = "open" =>
            /\ Visible(txn, tasks) = {}
            /\ op = "list" =>
                 \A n \in 1..Len(response.data), k \in DOMAIN txn.writes :
                    response.data[n] # to_representation(txn.writes[k]))
    /\ [][(txn.phase = "open" /\ txn'.phase = "idle") =>
            IF response'.status = 200
            THEN /\ DOMAIN txn.writes = txn.batch
                 /\ Visible(txn, tasks') = txn.batch
                 /\ \A k \in DOMAIN tasks \ txn.batch : tasks'[k] = tasks[k]
            ELSE /\ Visible(txn, tasks') = {}
                 /\ tasks' = tasks]_vars

\* a transaction is open in the middle of a batch of two: one record is
\* written, the other is not, and the committed table shows both as setUp
\* left them
C18_Witness ==
    /\ txn.phase = "open"
    /\ txn.batch = {1, 2}
    /\ Cardinality(DOMAIN txn.writes) = 1
    /\ Len(txn.todo) = 1
    /\ tasks = SetUpTasks

-----------------------------------------------------------------------------
(* C19 *)

\* C19: a create request whose body omits title, priority or status is
\* answered 400 and creates no record.
C19_RequiredOnCreate ==
    [][op' = "create" =>
       \A p \in Payloads :
         (/\ ~p.malformed
          /\ ~({"title", "priority", "status"} \subseteq DOMAIN p.body)
          /\ create(p.body, p.malformed))
         => (response'.status = 400 /\ tasks' = tasks)]_vars

-----------------------------------------------------------------------------
(* C20 *)

\* C20: a full update succeeds only when title, priority and status are all
\* supplied and valid: on an existing id, a body that omits one of them or
\* supplies an invalid value is answered 400 and changes nothing.
C20_FullUpdateReplaces ==
    [][op' = "update" =>
       \A i \in TaskIds, q \in DetailQueries, p \in Payloads :
         (/\ Found(tasks, i, q)
          /\ ~p.malformed
          /\ \/ ~({"title", "priority", "status"} \subseteq DOMAIN p.body)
             \/ SpecInvalidFields(p.body)
          /\ update(i, q, p.body, p.malformed))
         => (response'.status = 400 /\ tasks' = tasks)]_vars

\* what holds of the code: a full update on an existing id whose body omits
\* the title or supplies an invalid value is answered 400 and changes nothing
C20_InvalidFullUpdateRefused ==
    [][op' = "update" =>
       \A i \in TaskIds, q \in DetailQueries, p \in Payloads :
         (/\ Found(tasks, i, q)
          /\ ~p.malformed
          /\ \/ "title" \notin DOMAIN p.body
             \/ SpecInvalidFields(p.body)
          /\ update(i, q, p.body, p.malformed))
         => (response'.status = 400 /\ tasks' = tasks)]_vars

-----------------------------------------------------------------------------
(* C21 *)

\* the error kinds of the specification and the exceptions that carry them
NotFoundErrors ==
    {"Task.DoesNotExist", "django.http.Http404",
     "rest_framework.exceptions.NotFound"}
ValidationFailedErrors == {DjangoValidationError, SerializerValidationError}

\* the call raised an exception of one of the given classes and the store is
\* as it was
FailsWith(errors) ==
    /\ "raised" \in DOMAIN response'.data
    /\ response'.data.raised \in errors
    /\ tasks' = tasks

\* update and delete of an id that is not stored fail with NotFound, which
\* is not a validation failure
C21_NotFound ==
    /\ op' = "update_task" =>
         \A i \in TaskIds \ DOMAIN tasks, b \in Bodies :
           update_task(i, b) => FailsWith(NotFoundErrors \ ValidationFailedErrors)
    /\ op' = "delete_task" =>
         \A i \in TaskIds \ DOMAIN tasks :
           delete_task(i) => FailsWith(NotFoundErrors \ ValidationFailedErrors)

\* update of a stored id validates every required field when partial is
\* false and the supplied fields when partial is true (update_task is the
\* only update the service has, whatever partial the caller means); a valid
\* update returns the updated record
C21_Validation ==
    op' = "update_task" =>
      \A i \in DOMAIN tasks, b \in Bodies, partial \in BOOLEAN :
        update_task(i, b) =>
          IF \/ SpecInvalidFields(b)
             \/ (~partial /\ ~({"title", "priority", "status"} \subseteq DOMAIN b))
          THEN FailsWith(ValidationFailedErrors)
          ELSE /\ "returned" \in DOMAIN response'.data
               /\ response'.data.returned = tasks'[i]
               /\ \A f \in DOMAIN b \cap WritableFields :
                    tasks'[i][f] = Stored(f, b[f])

\* delete of a stored id removes the record
C21_Deleted ==
    op' = "delete_task" =>
      \A i \in DOMAIN tasks :
        delete_task(i) => (i \notin DOMAIN tasks' /\ "returned" \in DOMAIN response'.data)

\* C21: the service's update and delete of an id that is not stored fail
\* with NotFound, an error that is not a validation failure, and leave the
\* store unchanged; update validates all required fields when partial is
\* false and only the supplied ones when partial is true; a successful
\* delete removes the record and a successful update returns the updated
\* record.
C21_ServiceNotFound ==
    [][C21_NotFound /\ C21_Validation /\ C21_Deleted]_vars

\* the parts of C21, each on its own
C21_NotFoundAlone == [][C21_NotFound]_vars
C21_ValidationAlone == [][C21_Validation]_vars
C21_DeletedAlone == [][C21_Deleted]_vars

-----------------------------------------------------------------------------
(* C22 *)

\* C22: a DELETE of an existing id (sent without query parameters) is
\* answered 204 with an empty body: the response carries no data.
C22_DeleteNoContent ==
    [][op' = "destroy" =>
         \A i \in DOMAIN tasks :
           destroy(i, NoQuery)
           => (response'.status = 204 /\ DOMAIN response'.data = {})]_vars

\* what holds of the code: the status of such a DELETE is 204 and the record
\* is gone
C22_DeleteStatus ==
    [][op' = "destroy" =>
         \A i \in DOMAIN tasks :
           destroy(i, NoQuery)
           => (response'.status = 204 /\ i \notin DOMAIN tasks')]_vars

-----------------------------------------------------------------------------
(* C23 *)

\* serialize, then deserialize: TaskSerializer(task).data given back to
\* TaskSerializer(data=...) (timestamps are abstract values here; their ISO
\* 8601 rendering is taken to be read back as the same instant)
Deserialized(row) == validated_data(to_representation(row))

\* the round trip of a record keeps the given fields
RoundTripKeeps(row, fields) ==
    /\ is_valid(to_representation(row), FALSE)
    /\ \A f \in fields :
         f \in DOMAIN Deserialized(row) /\ Deserialized(row)[f] = row[f]

\* C23: for every stored record, serializing it and deserializing the output
\* yields the same value for each of the eight fields id, title,
\* description, priority, status, created_at, updated_at and due_date.
C23_RoundTrip ==
    \A k \in DOMAIN tasks : RoundTripKeeps(tasks[k], SerializerFields)

\* the same for the five writable fields only
C23_WritableRoundTrip ==
    \A k \in DOMAIN tasks : RoundTripKeeps(tasks[k], WritableFields)

\* the same for the writable fields of the records whose status is in the
\* enum
C23_WritableRoundTripOfValid ==
    \A k \in DOMAIN tasks :
      tasks[k].status \in STATUS_CHOICES
      => RoundTripKeeps(tasks[k], WritableFields)

-----------------------------------------------------------------------------
(* C24 *)

\* C24: a partial update changes only the fields it supplies, also when
\* partial updates of the same id overlap: the save of a partial update
\* leaves every field it does not supply (updated_at apart) as it is stored
\* at that time, so that after two overlapping partial updates on disjoint
\* fields the record holds the values of both.
C24_PartialUpdateKeepsOthers ==
    [][\A c \in Clients :
         (c \in DOMAIN inflight /\ partial_update_save(c)
            /\ response'.status = 200)
         => LET request == inflight[c]
            IN  /\ \A f \in DOMAIN request.body :
                     tasks'[request.id][f] = Stored(f, request.body[f])
                /\ \A f \in SerializerFields \
                              (DOMAIN request.body \cup {"updated_at"}) :
                     tasks'[request.id][f] = tasks[request.id][f]]_vars

\* what holds of the code: a partial update that does not overlap another
\* one (no other request is between its load and its save) changes only the
\* fields it supplies
C24_AloneKeepsOthers ==
    [][\A c \in Clients :
         (DOMAIN inflight = {c} /\ partial_update_save(c)
            /\ response'.status = 200
            /\ inflight[c].instance = tasks[inflight[c].id])
         => LET request == inflight[c]
            IN  \A f \in SerializerFields \
                           (DOMAIN request.body \cup {"updated_at"}) :
                  tasks'[request.id][f] = tasks[request.id][f]]_vars

-----------------------------------------------------------------------------
(* C25 *)

\* C25: a PUT or PATCH addressed to an id that is not stored is answered
\* 404 whatever its body is (valid, invalid, empty or not JSON), never 400,
\* and changes nothing.
C25_NotFoundBeforeValidation ==
    [][/\ op' = "update" =>
            \/ response'.status = 404 /\ tasks' = tasks
            \/ \A i \in TaskIds \ DOMAIN tasks, q \in DetailQueries, p \in Payloads :
                 ~update(i, q, p.body, p.malformed)
       /\ op' = "partial_update" =>
            \/ response'.status = 404 /\ tasks' = tasks
            \/ \A i \in TaskIds \ DOMAIN tasks, q \in DetailQueries, p \in Payloads :
                 ~partial_update(i, q, p.body, p.malformed)]_vars

\* a PATCH was answered 404 when the only record ever stored had been
\* deleted: whatever it carried, it was addressed to an id that is not stored
C25_Witness ==
    /\ op = "partial_update"
    /\ response.status = 404
    /\ DOMAIN tasks = {}
    /\ deleted = {1}

-----------------------------------------------------------------------------
(* C26 *)

\* C26: in every reachable state the statistics satisfy
\* total = pending + in_progress + completed and high_priority <= total.
C26_StatisticsAddUp ==
    LET s == get_task_statistics(tasks)
    IN  /\ s.total = s.pending + s.in_progress + s.completed
        /\ s.high_priority <= s.total

\* what holds of the code: the status counts never exceed the total, nor
\* does high_priority
C26_CountsWithinTotal ==
    LET s == get_task_statistics(tasks)
    IN  /\ s.pending + s.in_progress + s.completed <= s.total
        /\ s.high_priority <= s.total

-----------------------------------------------------------------------------
(* C27 *)

-----------------------------------------------------------------------------
(* C28 *)

\* the requests that only read
ReadOperations == {"list", "retrieve", "high_priority", "statistics"}

\* C28: the set of stored ids changes only by a create answered 201, which
\* adds exactly one id that was never used and leaves the other records as
\* they were, or by a delete answered 204, which removes exactly the id it
\* addresses and leaves the other records as they were; no other operation
\* adds or removes a record, and list, retrieve, high_priority and
\* statistics change no field of any record.
C28_Frame ==
    [][/\ DOMAIN tasks' # DOMAIN tasks =>
            \/ /\ op' = "create"
               /\ response'.status = 201
               /\ response'.data.id \notin UsedIds
               /\ DOMAIN tasks' = DOMAIN tasks \cup {response'.data.id}
               /\ \A k \in DOMAIN tasks : tasks'[k] = tasks[k]
            \/ /\ op' = "destroy"
               /\ response'.status = 204
       /\ (op' = "create" /\ response'.status = 201) =>
            Cardinality(DOMAIN tasks') = Cardinality(DOMAIN tasks) + 1
       /\ (op' = "destroy" /\ response'.status = 204) =>
            \A i \in TaskIds, q \in DetailQueries :
              destroy(i, q) =>
                /\ i \in DOMAIN tasks
                /\ DOMAIN tasks' = DOMAIN tasks \ {i}
                /\ \A k \in DOMAIN tasks' : tasks'[k] = tasks[k]
       /\ op' \in ReadOperations => tasks' = tasks]_vars

\* a delete has just removed record 1 and left record 2 stored
C28_Witness ==
    /\ op = "destroy"
    /\ response.status = 204
    /\ DOMAIN tasks = {2}
    /\ deleted = {1}

====
